---- MODULE Spec2Model ----
(***************************************************************************)
(* Cluster formation of the XMRT mesh network                              *)
(* (core/meshnet/src/protocol/ClusterFormation.cpp).                       *)
(*                                                                         *)
(* Numbers.  The code computes in double.  The model computes the same     *)
(* expressions exactly, as integers over a fixed denominator:              *)
(*   batteryLevel, rssi              whole units                           *)
(*   connectionStability             hundredths (0..100 for 0.0..1.0)      *)
(*   calculateCapabilityScore        units of 1/2560                       *)
(*   calculateLeadershipScore        units of 1/128000                     *)
(*   averageRssi                     a fraction num/den in lowest terms    *)
(***************************************************************************)
EXTENDS Integers, Sequences, FiniteSets, TLC

\* ---------------------------------------------------------------- bounds
MaxDevices == 3        \* longest device list handed to formCluster
MaxClusterSize == 3    \* largest maxClusterSize handed to formCluster
MaxTime == 1           \* readings of system_clock::now() are 1..MaxTime

\* ------------------------------------------------------------- constants
\* The battery threshold of optimizeCluster, declared in ClusterFormation.h.
MIN_BATTERY_THRESHOLD == 20
\* std::uniform_int_distribution<> dis(1000, 9999)
SuffixLow == 1000
SuffixHigh == 9999
\* Weighted scoring factors 0.4, 0.3, 0.2, 0.1, in tenths
BATTERY_WEIGHT == 4
RSSI_WEIGHT == 3
STABILITY_WEIGHT == 2
CAPABILITY_WEIGHT == 1
\* double bestScore = -1.0, in units of 1/128000
InitialBestScore == -128000

\* --------------------------------------------------------------- helpers
Min(a, b) == IF a < b THEN a ELSE b
Max(a, b) == IF a > b THEN a ELSE b

RECURSIVE GCD(_, _)
GCD(a, b) == IF b = 0 THEN a ELSE GCD(b, a % b)

Abs(a) == IF a < 0 THEN -a ELSE a

\* a double holding num/den, as the fraction in lowest terms (den > 0)
Fraction(num, den) ==
    LET g == GCD(Abs(num), den)
    IN  [num |-> num \div g, den |-> den \div g]

Zero == [num |-> 0, den |-> 1]

\* ----------------------------------------------------------------- Device
Device(id, rssi, batteryLevel, connectionStability, cpuCores, ramGB, storageGB, supports5G, supportsWiFi6, supportsWiFi5) ==
    [id |-> id, rssi |-> rssi, batteryLevel |-> batteryLevel,
     connectionStability |-> connectionStability,
     cpuCores |-> cpuCores, ramGB |-> ramGB, storageGB |-> storageGB,
     supports5G |-> supports5G, supportsWiFi6 |-> supportsWiFi6,
     supportsWiFi5 |-> supportsWiFi5]

\* The neighbours device discovery can report.  dA and dB tie on rssi; dB and
\* dC tie on leadership score; dA is strong but below the battery threshold;
\* dD sits exactly on the threshold; dE is weak, low, below the rssi clamp, and
\* reuses the id of dA.
dA == Device(1, -30, 15, 100, 8, 16, 512, TRUE, FALSE, FALSE)
dB == Device(2, -30, 50, 50, 4, 4, 64, FALSE, FALSE, TRUE)
dC == Device(3, -40, 50, 65, 4, 4, 64, FALSE, FALSE, TRUE)
dD == Device(4, -80, 20, 50, 2, 2, 16, FALSE, TRUE, TRUE)
dE == Device(1, -120, 5, 10, 1, 1, 16, FALSE, FALSE, FALSE)

DeviceUniverse == {dA, dB, dC, dD, dE}

DeviceLists == UNION {[1..n -> DeviceUniverse] : n \in 0..MaxDevices}

\* ------------------------------------------------------- leadership score
\* calculateCapabilityScore, in units of 1/2560:
\*   min(1, cores/8)*0.3 = 96*min(8, cores)/2560, min(1, ram/16)*0.3 =
\*   48*min(16, ram)/2560, min(1, storage/512)*0.2 = min(512, storage)/2560,
\*   the network bonus 0.2 / 0.15 / 0.1 = 512 / 384 / 256.
calculateCapabilityScore(device) ==
    LET cpu     == 96 * Min(8, device.cpuCores)
        ram     == 48 * Min(16, device.ramGB)
        storage == Min(512, device.storageGB)
        network == IF device.supports5G THEN 512
                   ELSE IF device.supportsWiFi6 THEN 384
                   ELSE IF device.supportsWiFi5 THEN 256
                   ELSE 0
    IN  Min(2560, cpu + ram + storage + network)

\* slip: the strength of the signal taken for its magnitude
rssiScore_Magnitude(device) == Max(0, Abs(device.rssi + 100))

\* std::max(0.0, (device.rssi + 100.0) / 100.0), in hundredths
rssiScore(device) == Max(0, device.rssi + 100)

\* calculateLeadershipScore, in units of 1/128000:
\*   batteryLevel/100 * 0.4       = 128 * BATTERY_WEIGHT * batteryLevel
\*   rssiScore * 0.3              = 128 * RSSI_WEIGHT * hundredths
\*   connectionStability * 0.2    = 128 * STABILITY_WEIGHT * hundredths
\*   capabilityScore * 0.1        = 5 * CAPABILITY_WEIGHT * (1/2560 units)
calculateLeadershipScore(device) ==
    LET batteryScore    == device.batteryLevel
        stabilityScore  == device.connectionStability
        capabilityScore == calculateCapabilityScore(device)
    IN  (128 * BATTERY_WEIGHT * batteryScore)
      + (128 * RSSI_WEIGHT * rssiScore(device))
      + (128 * STABILITY_WEIGHT * stabilityScore)
      + (5 * CAPABILITY_WEIGHT * capabilityScore)

\* ---------------------------------------------------------------- election
\* slip: >= lets the last of several equal scores win
BeatsBest_OrEqual(score, bestScore) == score >= bestScore

\* if (score > bestScore)
BeatsBest(score, bestScore) == score > bestScore

\* The loop of electLeader from position i on; candidates are positions in
\* devices, 0 standing for nullptr.
RECURSIVE electLeaderFrom(_, _, _, _)
electLeaderFrom(devices, i, bestCandidate, bestScore) ==
    IF i > Len(devices) THEN bestCandidate
    ELSE LET score == calculateLeadershipScore(devices[i])
         IN  IF BeatsBest(score, bestScore)
             THEN electLeaderFrom(devices, i + 1, i, score)
             ELSE electLeaderFrom(devices, i + 1, bestCandidate, bestScore)

electLeader(devices) ==
    IF devices = <<>> THEN 0
    ELSE electLeaderFrom(devices, 1, 0, InitialBestScore)

\* ------------------------------------------------------------------ metrics
RECURSIVE SumRssiFrom(_, _)
SumRssiFrom(members, i) ==
    IF i > Len(members) THEN 0
    ELSE members[i].rssi + SumRssiFrom(members, i + 1)

calculateAverageRssi(members) ==
    IF members = <<>> THEN Zero
    ELSE Fraction(SumRssiFrom(members, 1), Len(members))

RECURSIVE calculateTotalBatteryFrom(_, _)
calculateTotalBatteryFrom(members, i) ==
    IF i > Len(members) THEN 0
    ELSE members[i].batteryLevel + calculateTotalBatteryFrom(members, i + 1)

calculateTotalBattery(members) == calculateTotalBatteryFrom(members, 1)

\* --------------------------------------------------------------- formCluster
\* slip: ascending comparator
RssiBefore_Ascending(a, b) == a.rssi < b.rssi

\* the comparator handed to std::sort
RssiBefore(a, b) == a.rssi > b.rssi

Orderings(n) ==
    {p \in [1..n -> 1..n] : \A i, j \in 1..n : i # j => p[i] # p[j]}

\* std::sort promises an ordering by the comparator and nothing about the
\* relative order of equivalent elements: every such ordering is an outcome.
SortOutcomes(devices) ==
    LET n == Len(devices)
        arranged == {[i \in 1..n |-> devices[p[i]]] : p \in Orderings(n)}
    IN  {s \in arranged :
            \A i, j \in 1..n : i < j => ~RssiBefore(s[j], s[i])}

\* slip: resize keeps one device too many
LimitClusterSize_OneMore(sortedDevices, maxSize) ==
    IF Len(sortedDevices) > maxSize + 1
    THEN SubSeq(sortedDevices, 1, maxSize + 1)
    ELSE sortedDevices

\* if (sortedDevices.size() > maxClusterSize) sortedDevices.resize(maxClusterSize)
LimitClusterSize(sortedDevices, maxSize) ==
    IF Len(sortedDevices) > maxSize
    THEN SubSeq(sortedDevices, 1, maxSize)
    ELSE sortedDevices

\* slip: a single device rejected as well
formClusterThrows_Single(devices) == Len(devices) <= 1

\* if (devices.empty()) throw std::invalid_argument(...)
formClusterThrows(devices) == Len(devices) = 0

\* "cluster_" + to_string(timestamp) + "_" + to_string(dis(gen))
generateClusterId(timestamp, suffix) == <<"cluster", timestamp, suffix>>

NoCluster == [none |-> TRUE]

MakeCluster(id, leader, members, formationTime, maxSize) ==
    [id |-> id, leader |-> leader, members |-> members,
     formationTime |-> formationTime, maxSize |-> maxSize,
     averageRssi |-> calculateAverageRssi(members),
     totalBatteryLevel |-> calculateTotalBattery(members)]

\* The Cluster formCluster builds from the sorted, truncated list.  leader is
\* a position in sortedDevices (electLeader's pointer), 0 for nullptr.
BuildCluster(sortedDevices, leader, maxSize, timestamp, suffix, formationTime) ==
    MakeCluster(generateClusterId(timestamp, suffix),
                IF leader # 0 THEN sortedDevices[leader] ELSE sortedDevices[1],
                sortedDevices, formationTime, maxSize)

\* ----------------------------------------------------------- optimizeCluster
\* slip: <= also removes a device exactly on the threshold
LowBattery_OrEqual(device) == device.batteryLevel <= MIN_BATTERY_THRESHOLD

\* the predicate handed to std::remove_if
LowBattery(device) == device.batteryLevel < MIN_BATTERY_THRESHOLD

\* members.erase(std::remove_if(...), members.end())
PruneMembers(members) == SelectSeq(members, LAMBDA device : ~LowBattery(device))

\* std::find_if(...) == members.end(): no member carries the leader's id
LeaderMissing(members, leader) ==
    \A i \in 1..Len(members) : members[i].id # leader.id

\* slip: != for ==, re-election only while the leader is still a member
MustReelect_WhilePresent(members, leader) ==
    ~LeaderMissing(members, leader) /\ members # <<>>

\* if (leaderIt == optimized.members.end() && !optimized.members.empty())
MustReelect(members, leader) ==
    LeaderMissing(members, leader) /\ members # <<>>

\* the leader of the optimized cluster
ReelectedLeader(members, leader) ==
    IF MustReelect(members, leader)
    THEN LET newLeader == electLeader(members)
         IN  IF newLeader # 0 THEN members[newLeader] ELSE leader
    ELSE leader

\* slip: the metrics of the argument kept, not recalculated
optimizeCluster_StaleMetrics(c) ==
    LET members == PruneMembers(c.members)
    IN  [c EXCEPT !.members = members,
                  !.leader = ReelectedLeader(members, c.leader)]

optimizeCluster(c) ==
    LET members == PruneMembers(c.members)
    IN  MakeCluster(c.id, ReelectedLeader(members, c.leader), members,
                    c.formationTime, c.maxSize)

\* slip: the argument taken by non-const reference and pruned in place
ArgumentAfterOptimize_InPlace(c) == optimizeCluster(c)

\* const Cluster& cluster; Cluster optimized = cluster: the work is done on
\* a copy, the argument keeps its value
ArgumentAfterOptimize(c) == c

\* ------------------------------------------------- score probe (pure function)
BatteryLevels == {0, 50, 100}
RssiLevels == {-120, -100, -50, 0}
StabilityLevels == {0, 50, 100}
CpuLevels == {1, 8, 16}
RamLevels == {1, 16, 32}
StorageLevels == {16, 512, 1024}

ProbeDevices ==
    {Device(1, r, b, s, c, m, g, f5, f6, fw) :
        r \in RssiLevels, b \in BatteryLevels, s \in StabilityLevels,
        c \in CpuLevels, m \in RamLevels, g \in StorageLevels,
        f5 \in BOOLEAN, f6 \in BOOLEAN, fw \in BOOLEAN}

VARIABLES
    devices,         \* the device list the caller holds for formCluster
    maxClusterSize,  \* the size cap the caller hands to formCluster
    outcome,         \* "none", "returned", "InvalidInput" or "undefined"
    cluster,         \* the Cluster the last call returned, or NoCluster
    arg,             \* the Cluster handed to the last optimizeCluster call, after it
    op,              \* the last call: "none", "formCluster", "optimizeCluster"
    probeA,          \* score probe: the device before one factor was raised
    probeB,          \* score probe: the device after
    scoreA,          \* calculateLeadershipScore(probeA)
    scoreB,          \* calculateLeadershipScore(probeB)
    factor           \* the factor raised from probeA to probeB, or "none"

clusterVars == <<devices, maxClusterSize, outcome, cluster, arg, op>>
probeVars == <<probeA, probeB, scoreA, scoreB, factor>>
vars == <<devices, maxClusterSize, outcome, cluster, arg, op,
          probeA, probeB, scoreA, scoreB, factor>>

NoCall ==
    /\ outcome = "none"
    /\ cluster = NoCluster
    /\ arg = NoCluster
    /\ op = "none"

InitProbe ==
    /\ probeA = dA
    /\ probeB = dA
    /\ scoreA = calculateLeadershipScore(dA)
    /\ scoreB = calculateLeadershipScore(dA)
    /\ factor = "none"

\* Device discovery has supplied a list and the caller a size cap; formCluster
\* takes both by const reference / by value and changes neither.
Init ==
    /\ devices \in DeviceLists
    /\ maxClusterSize \in 0..MaxClusterSize
    /\ NoCall
    /\ InitProbe

\* formCluster(devs, m), the clock reading timestamp inside generateClusterId,
\* the random suffix, and the later clock reading formationTime.
FormCluster ==
    LET devs == devices
        m == maxClusterSize
    IN  /\ UNCHANGED <<devices, maxClusterSize>>
        /\ op' = "formCluster"
        /\ arg' = NoCluster
        /\ UNCHANGED probeVars
        /\ IF formClusterThrows(devs)
           THEN /\ outcome' = "InvalidInput"
                /\ cluster' = NoCluster
           ELSE \E sorted \in SortOutcomes(devs),
                   timestamp \in 1..MaxTime, formationTime \in 1..MaxTime,
                   suffix \in {SuffixLow, SuffixHigh} :
                    LET sortedDevices == LimitClusterSize(sorted, m)
                        leader == electLeader(sortedDevices)
                    IN  /\ timestamp <= formationTime
                        /\ IF leader = 0 /\ sortedDevices = <<>>
                           THEN \* sortedDevices[0] of an empty vector: undefined
                                \/ /\ outcome' = "undefined"
                                   /\ cluster' = NoCluster
                                \/ \E garbage \in DeviceUniverse :
                                   /\ outcome' = "returned"
                                   /\ cluster' = MakeCluster(
                                          generateClusterId(timestamp, suffix),
                                          garbage, sortedDevices,
                                          formationTime, m)
                           ELSE /\ outcome' = "returned"
                                /\ cluster' = BuildCluster(sortedDevices, leader,
                                       m, timestamp, suffix, formationTime)

\* optimizeCluster(cluster) on the Cluster the caller holds
OptimizeCluster ==
    /\ outcome = "returned"
    /\ cluster' = optimizeCluster(cluster)
    /\ arg' = ArgumentAfterOptimize(cluster)
    /\ op' = "optimizeCluster"
    /\ outcome' = "returned"
    /\ UNCHANGED <<devices, maxClusterSize>>
    /\ UNCHANGED probeVars

Next == FormCluster \/ OptimizeCluster

Spec == Init /\ [][Next]_vars

\* ---- the score probe: draw a device, raise one factor, score both
InitScore ==
    /\ devices = <<>>
    /\ maxClusterSize = 0
    /\ NoCall
    /\ \E d \in ProbeDevices :
        /\ probeA = d
        /\ probeB = d
        /\ scoreA = calculateLeadershipScore(d)
        /\ scoreB = calculateLeadershipScore(d)
    /\ factor = "none"

Raise(f, levels) ==
    \E v \in levels :
        /\ v > probeB[f]
        /\ probeA' = probeB
        /\ probeB' = [probeB EXCEPT ![f] = v]
        /\ scoreA' = calculateLeadershipScore(probeA')
        /\ scoreB' = calculateLeadershipScore(probeB')
        /\ factor' = f
        /\ UNCHANGED clusterVars

RaiseBatteryLevel == Raise("batteryLevel", BatteryLevels)
RaiseRssi == Raise("rssi", RssiLevels)
RaiseConnectionStability == Raise("connectionStability", StabilityLevels)
RaiseCpuCores == Raise("cpuCores", CpuLevels)
RaiseRamGB == Raise("ramGB", RamLevels)
RaiseStorageGB == Raise("storageGB", StorageLevels)

NextScore ==
    \/ RaiseBatteryLevel
    \/ RaiseRssi
    \/ RaiseConnectionStability
    \/ RaiseCpuCores
    \/ RaiseRamGB
    \/ RaiseStorageGB

SpecScore == InitScore /\ [][NextScore]_vars

\* ======================================================================
\* Properties
\* ======================================================================
Returned == outcome = "returned"
Members == cluster.members
DistinctIds(list) ==
    \A i, j \in 1..Len(list) : i # j => list[i].id # list[j].id
Occurrences(list, d) == Cardinality({i \in 1..Len(list) : list[i] = d})
Kept(d) == d.batteryLevel >= MIN_BATTERY_THRESHOLD

\* C1: formCluster on an empty device list fails with InvalidInput and
\* returns no Cluster, whatever maxClusterSize is; with maxClusterSize >= 1
\* the empty list is the only input on which formCluster fails.
C1_EmptyListIsTheOnlyFailure ==
    op = "formCluster" =>
        /\ devices = <<>> => (outcome = "InvalidInput" /\ cluster = NoCluster)
        /\ (maxClusterSize >= 1 /\ ~Returned) => devices = <<>>

C1_Witness ==
    /\ op = "formCluster"
    /\ devices = <<>>
    /\ maxClusterSize = 0
    /\ outcome = "InvalidInput"

\* C2: in a Cluster formed from a non-empty list of devices with distinct
\* ids (maxClusterSize >= 1) and optimized any number of times, a non-empty
\* members holds a device with the leader's id.
C2_LeaderAmongMembers ==
    (Returned /\ maxClusterSize >= 1 /\ DistinctIds(devices) /\ Members # <<>>) =>
        \E i \in 1..Len(Members) : Members[i].id = cluster.leader.id

C2_Witness ==
    /\ op = "optimizeCluster"
    /\ DistinctIds(devices)
    /\ Members # <<>>
    /\ arg.leader.id # cluster.leader.id
    /\ \E i \in 1..Len(Members) : Members[i].id = cluster.leader.id

\* C3: for a non-empty list and maxClusterSize >= 1, formCluster returns a
\* Cluster with min(len(devices), maxClusterSize) members whose maxSize is
\* maxClusterSize.
C3_MemberCount ==
    (op = "formCluster" /\ devices # <<>> /\ maxClusterSize >= 1) =>
        /\ Returned
        /\ Len(Members) = Min(Len(devices), maxClusterSize)
        /\ cluster.maxSize = maxClusterSize

C3_Witness ==
    /\ op = "formCluster"
    /\ Returned
    /\ maxClusterSize >= 1
    /\ Len(devices) > maxClusterSize
    /\ Len(Members) = maxClusterSize

\* C4: the members formCluster returns are in non-increasing rssi order,
\* are a sub-multiset of the input, and every input device left out has an
\* rssi no greater than that of every member.
C4_StrongestSelection ==
    (op = "formCluster" /\ Returned) =>
        /\ \A i, j \in 1..Len(Members) :
              i < j => Members[i].rssi >= Members[j].rssi
        /\ \A d \in DeviceUniverse :
              Occurrences(Members, d) <= Occurrences(devices, d)
        /\ \A d \in DeviceUniverse :
              Occurrences(Members, d) < Occurrences(devices, d) =>
                  \A i \in 1..Len(Members) : d.rssi <= Members[i].rssi

C4_Witness ==
    /\ op = "formCluster"
    /\ Returned
    /\ Len(Members) = 2
    /\ Len(devices) = 3
    /\ devices[1].rssi < devices[3].rssi
    /\ Members[1].rssi > Members[2].rssi
    /\ \E i \in 1..3 : devices[i].rssi < Members[2].rssi

\* The stable descending sort of list: the one arrangement in rssi order
\* that keeps devices of equal rssi in their order of arrival.
StableOrder(list) ==
    LET n == Len(list)
    IN  CHOOSE p \in Orderings(n) :
            \A i, j \in 1..n : i < j =>
                \/ list[p[i]].rssi > list[p[j]].rssi
                \/ list[p[i]].rssi = list[p[j]].rssi /\ p[i] < p[j]

\* C5: formCluster's sort is stable on rssi ties: the members are the first
\* min(len, maxClusterSize) devices of the stable descending sort of the
\* input, so tied devices keep their input order and a tie group cut by the
\* truncation keeps its earliest devices.
C5_StableOnTies ==
    (op = "formCluster" /\ Returned) =>
        LET p == StableOrder(devices)
        IN  \A i \in 1..Len(Members) : Members[i] = devices[p[i]]

\* C6: in every returned Cluster totalBatteryLevel is the sum of the
\* members' batteryLevel and averageRssi is the sum of the members' rssi
\* divided by their number; both are 0 for no members.
C6_MetricsMatchMembers ==
    Returned =>
        LET n == Len(Members)
            battery == [i \in 1..n |-> Members[i].batteryLevel]
            rssi == [i \in 1..n |-> Members[i].rssi]
            Sum[k \in 0..n, f \in {battery, rssi}] ==
                IF k = 0 THEN 0 ELSE f[k] + Sum[k - 1, f]
        IN  /\ cluster.totalBatteryLevel = Sum[n, battery]
            /\ cluster.averageRssi.den > 0
            /\ cluster.averageRssi.num * Max(n, 1)
                   = Sum[n, rssi] * cluster.averageRssi.den
            /\ n = 0 => (cluster.averageRssi.num = 0
                         /\ cluster.totalBatteryLevel = 0)

C6_Witness ==
    /\ op = "optimizeCluster"
    /\ Members # <<>>
    /\ Len(Members) < Len(arg.members)
    /\ cluster.totalBatteryLevel < arg.totalBatteryLevel
    /\ cluster.averageRssi # arg.averageRssi

\* positions of the members of list that stay, in order
KeptPositions(list) == {i \in 1..Len(list) : Kept(list[i])}

\* C7: every optimizeCluster call returns, in order, exactly the members of
\* its argument with batteryLevel >= MIN_BATTERY_THRESHOLD: membership never
\* grows and a device absent before the call is absent after it.
C7_PruneOnly ==
    [][op' = "optimizeCluster" =>
          LET before == cluster.members
              after == cluster'.members
              keep == KeptPositions(before)
          IN  /\ Len(after) = Cardinality(keep)
              /\ Len(after) <= Len(before)
              /\ \A i \in keep :
                    after[Cardinality({k \in keep : k <= i})] = before[i]
              /\ \A d \in DeviceUniverse :
                    Occurrences(before, d) = 0 => Occurrences(after, d) = 0
      ]_vars

C7_Witness ==
    /\ op = "optimizeCluster"
    /\ Len(arg.members) = 3
    /\ Len(Members) = 2
    /\ ~Kept(arg.members[1])
    /\ Members[1] = arg.members[2]
    /\ Members[2] = arg.members[3]
    /\ \E i \in 1..2 : Members[i].batteryLevel = MIN_BATTERY_THRESHOLD

\* C8: raising one of batteryLevel, rssi, connectionStability, cpuCores,
\* ramGB, storageGB with everything else fixed never lowers
\* calculateLeadershipScore, also across the rssi clamp and the capability caps.
C8_ScoreMonotonic ==
    (/\ factor # "none"
     /\ probeB[factor] > probeA[factor]
     /\ \A f \in DOMAIN probeA : f # factor => probeB[f] = probeA[f]) =>
        scoreB >= scoreA

C8_Witness ==
    /\ factor = "rssi"
    /\ probeA.rssi < -100
    /\ probeB.rssi > -100
    /\ scoreB > scoreA

Score(d) == calculateLeadershipScore(d)

\* C9: with distinct ids, the leader of a returned Cluster with members is
\* the first member of maximal leadership score: no member scores higher and
\* no member before the leader scores the same.
C9_LeaderIsFirstMaximum ==
    (Returned /\ DistinctIds(devices) /\ Members # <<>>) =>
        \E l \in 1..Len(Members) :
            /\ Members[l] = cluster.leader
            /\ \A i \in 1..Len(Members) : Score(Members[i]) <= Score(cluster.leader)
            /\ \A i \in 1..(l - 1) : Score(Members[i]) < Score(cluster.leader)

C9_Witness ==
    /\ op = "optimizeCluster"
    /\ DistinctIds(devices)
    /\ Len(Members) >= 2
    /\ arg.leader # cluster.leader
    /\ cluster.leader = Members[1]
    /\ Score(Members[2]) = Score(Members[1])

\* C10: optimizeCluster on a Cluster whose members are all below
\* MIN_BATTERY_THRESHOLD returns (no error) a Cluster with no members,
\* averageRssi 0 and totalBatteryLevel 0, and the leader, id, formationTime
\* and maxSize of its argument; the argument keeps its value.
C10_PruneToEmpty ==
    [][(op' = "optimizeCluster"
        /\ \A i \in 1..Len(cluster.members) : ~Kept(cluster.members[i])) =>
          /\ outcome' = "returned"
          /\ cluster'.members = <<>>
          /\ cluster'.averageRssi = Zero
          /\ cluster'.totalBatteryLevel = 0
          /\ cluster'.leader = cluster.leader
          /\ cluster'.id = cluster.id
          /\ cluster'.formationTime = cluster.formationTime
          /\ cluster'.maxSize = cluster.maxSize
          /\ arg' = cluster
      ]_vars

C10_Witness ==
    /\ op = "optimizeCluster"
    /\ arg.members # <<>>
    /\ Members = <<>>
    /\ cluster.leader = arg.leader
    /\ cluster.averageRssi = Zero
    /\ cluster.totalBatteryLevel = 0
    /\ arg.totalBatteryLevel > 0
====
